---- MODULE Spec2Model ----
(***************************************************************************)
(* Event management API (Django REST framework): events, attendee          *)
(* registration with a capacity check and a (event, email) uniqueness      *)
(* constraint, served by several workers over one shared store.            *)
(*                                                                         *)
(* Time is counted in units of 5 h 30 min, so that Asia/Kolkata is exactly *)
(* one unit ahead of UTC.  Stored instants are UTC.                        *)
(***************************************************************************)
EXTENDS Integers, Sequences, FiniteSets, TLC

VARIABLES events, attendees, now, pc, req, response

vars == <<events, attendees, now, pc, req, response>>

(* ------------------------------ bounds ------------------------------- *)

NumWorkers == 2      \* concurrent request handlers
MaxEvents == 2       \* rows of the events table
MaxClock == 2        \* last value of the wall clock
MaxTime == 3         \* latest wall-clock datetime a client submits
MaxDuration == 1     \* longest time window a client submits

Workers == 1..NumWorkers

(* ------------------------- program constants ------------------------- *)

page_size == 10

HTTP_200_OK == 200
HTTP_201_CREATED == 201
HTTP_400_BAD_REQUEST == 400
HTTP_404_NOT_FOUND == 404
HTTP_500_INTERNAL_SERVER_ERROR == 500

Statuses ==
    {HTTP_200_OK, HTTP_201_CREATED, HTTP_400_BAD_REQUEST, HTTP_404_NOT_FOUND,
     HTTP_500_INTERNAL_SERVER_ERROR}

MsgFull == "Sorry, event is full. New attendees can not be registered."
MsgIncorrect == "Incorrect data. Please check all the data fields and try again."
MsgDuplicate ==
    "Attendee already registered for this event. Please try with the different email."
MsgRegistered == "Attendee registered successfully!"
MsgCreated == "Event created successfully."
MsgCreateFailed ==
    "Failed to create event. Please correct the input data and try again."
MsgCreateUnexpected == "An unexpected error occurred while creating the event."
MsgEventNotFound ==
    "Sorry, event not found. Please check the event ID and try again."
MsgEventFetched == "Event fetched successfully."
MsgUpcoming == "Upcoming events fetched successfully."
MsgNoUpcoming == "No upcoming events found."
MsgUpdateInvalid == "Validation failed during update."
MsgUpdateUnexpected == "An unexpected error occurred."
MsgAttendees == "Event attendees fetched successfully."
MsgNoAttendees == "No event attendees found."

(* ------------------------------ inputs ------------------------------- *)

\* A key absent from the request body.
Missing == "<missing>"

Zones == {"UTC", "Asia/Kolkata"}
HeaderZones == Zones \cup {"Mars/Phobos"}

EventNames == {"PyCon", "AI Summit"}
NameInputs == EventNames \cup {""}
LocationInputs == {"Pune"}
CapacityInputs == {-5, 0, 1, 2}

AttendeeNames == {"John Doe", ""}
ValidEmails == {"john@example.com", "jane@example.com"}
EmailInputs == ValidEmails \cup {"not-an-email", Missing}

\* A datetime of a request body: a naive wall-clock string, a string with an
\* explicit UTC offset, a string that is no datetime, or an absent key.
Naive(t) == [kind |-> "naive", t |-> t, off |-> 0]
Aware(t, o) == [kind |-> "aware", t |-> t, off |-> o]
Garbage == [kind |-> "garbage", t |-> 0, off |-> 0]
NoTime == [kind |-> "missing", t |-> 0, off |-> 0]

TimeInputs ==
    {Naive(t) : t \in 1..MaxTime} \cup {Aware(MaxTime, 1), Garbage, NoTime}

AllEventBodies ==
    [name : NameInputs, location : LocationInputs, start_time : TimeInputs,
     end_time : TimeInputs, max_capacity : CapacityInputs]

\* The number of fields of a body that are malformed on their own.
Malformed(b) ==
    Cardinality({k \in {"name", "start_time", "end_time", "max_capacity"} :
        \/ k = "name" /\ b.name = ""
        \/ k = "start_time" /\ b.start_time.kind \in {"garbage", "missing"}
        \/ k = "end_time" /\ b.end_time.kind \in {"garbage", "missing"}
        \/ k = "max_capacity" /\ b.max_capacity < 0})

\* The body of test_create_event_invalid: several bad fields at once.
bad_data ==
    [name |-> "", location |-> "Pune", start_time |-> Naive(1),
     end_time |-> Naive(2), max_capacity |-> -5]

\* The time window of a body is longer than the longest a client submits.
TooLong(b) ==
    /\ b.start_time.kind \in {"naive", "aware"}
    /\ b.end_time.kind \in {"naive", "aware"}
    /\ b.end_time.t - b.start_time.t > MaxDuration

\* The bodies of create requests: at most one malformed field, or bad_data.
EventBodies ==
    {b \in AllEventBodies : Malformed(b) <= 1 /\ ~TooLong(b)} \cup {bad_data}

\* The bodies of update requests: one that meets the invariants of create
\* at clock 0, and one whose end_time is not after its start_time.
UpdateBodies ==
    {[name |-> "AI Summit", location |-> "Pune", start_time |-> Naive(1),
      end_time |-> Naive(e), max_capacity |-> 1] : e \in {1, 2}}

AttendeeBodies == [name : AttendeeNames, email : EmailInputs]

EventIds == 1..(MaxEvents + 1)
Pages == {1, 2}

(* ----------------------------- records ------------------------------ *)

NoEvent ==
    [id |-> 0, name |-> "", location |-> "", start_time |-> 0, end_time |-> 0,
     max_capacity |-> 0]

NoBody == [name |-> Missing, email |-> Missing]

\* The locals of a handler that is not running.
NoReq == [event |-> NoEvent, body |-> NoBody, tz |-> "UTC", evaluated_at |-> 0]

\* What a response keeps of the request it answers: its X-Timezone header
\* and the email of its body, "-" where the handler reads neither.
NoRequest == [tz |-> "-", email |-> "-"]

\* A response built by a handler: the uniform envelope.
Envelope(op, status, success, message, errors, data) ==
    [op |-> op, status |-> status, envelope |-> TRUE, success |-> success,
     message |-> message, errors |-> errors, data |-> data, raised |-> "none",
     request |-> NoRequest]

\* An exception that leaves the handler: Django answers it with its own
\* 500 page, which is no envelope.
Uncaught(op, exc) ==
    [op |-> op, status |-> HTTP_500_INTERNAL_SERVER_ERROR, envelope |-> FALSE,
     success |-> FALSE, message |-> "", errors |-> {}, data |-> <<>>,
     raised |-> exc, request |-> NoRequest]

\* An APIException that leaves the handler: the framework's exception
\* handler answers it with {"detail": ...}, which is no envelope.
ApiException(op, status, exc) ==
    [op |-> op, status |-> status, envelope |-> FALSE, success |-> FALSE,
     message |-> "", errors |-> {}, data |-> <<>>, raised |-> exc,
     request |-> NoRequest]

\* No response is on its way to a client.
NoResponse ==
    [op |-> "none", status |-> 0, envelope |-> FALSE, success |-> FALSE,
     message |-> "", errors |-> {}, data |-> <<>>, raised |-> "none",
     request |-> NoRequest]

\* The response r to a request with this X-Timezone header.
WithZone(r, timezone_str) == [r EXCEPT !.request.tz = timezone_str]

\* The response r to a request with this body.
WithBody(r, body) == [r EXCEPT !.request.email = body.email]

(* --------------------------- TimeNormalizer -------------------------- *)

\* pytz.timezone(name).utcoffset, in clock units.
ZoneOffset(tz) == IF tz = "Asia/Kolkata" THEN 1 ELSE 0

\* utils.localize_input, one key: a naive value is wall-clock time in tz,
\* a value with an offset keeps its own offset; the result is UTC.  An
\* absent key is left alone.
LocalizeTime(v, tz) ==
    IF v.kind = "naive" THEN [kind |-> "utc", t |-> v.t - ZoneOffset(tz), off |-> 0]
    ELSE IF v.kind = "aware" THEN [kind |-> "utc", t |-> v.t - v.off, off |-> 0]
    ELSE v

\* utils.localize_input: the exception it raises, or "none".
localize_raises(data, timezone_str) ==
    IF timezone_str \notin Zones THEN "UnknownTimeZoneError"
    ELSE IF data.start_time.kind = "garbage" THEN "ParserError"
    ELSE IF data.end_time.kind = "garbage" THEN "ParserError"
    ELSE "none"

localize_input(data, timezone_str) ==
    [data EXCEPT !.start_time = LocalizeTime(data.start_time, timezone_str),
                 !.end_time = LocalizeTime(data.end_time, timezone_str)]

\* utils.convert_to_utc on a value the serializer validated: the value is
\* aware (UTC) already, so it is not localized again.
convert_to_utc(t, user_timezone) == t

\* The rendering that leaves every instant in UTC.
RenderedInUTC(t, user_timezone) == t

\* The rendering that takes every zone other than UTC for Asia/Kolkata.
RenderedStrict(t, user_timezone) == IF user_timezone = "UTC" THEN t ELSE t + 1

\* utils.modify_datetime_format.convert_datetime: an unknown zone falls
\* back to UTC.
convert_datetime(t, user_timezone) ==
    IF user_timezone \in Zones THEN t + ZoneOffset(user_timezone) ELSE t

modify_datetime_format(e, user_timezone) ==
    [e EXCEPT !.start_time = convert_datetime(e.start_time, user_timezone),
              !.end_time = convert_datetime(e.end_time, user_timezone)]

(* ---------------------------- serializers ---------------------------- *)

\* EventSerializer.validate_start_time
StartTimeInPast(value, clock) == value <= clock

\* EventSerializer.validate
EndNotAfterStart(start, end) == end <= start

\* unique=True of Event.name: the serializer's UniqueValidator and the
\* storage's constraint.
NameTaken(name) == \E e \in events : e.name = name

\* The minimum the ModelSerializer derives from PositiveIntegerField.
CapacityInvalid(c) == c < 0

\* EventSerializer.is_valid on localized data: the keys of serializer.errors.
EventFieldErrors(data, clock) ==
    {k \in {"name", "location", "start_time", "end_time", "max_capacity"} :
        \/ k = "name" /\ (data.name \in {"", Missing} \/ NameTaken(data.name))
        \/ k = "location" /\ data.location \in {"", Missing}
        \/ k = "start_time"
           /\ (data.start_time.kind = "missing"
               \/ StartTimeInPast(data.start_time.t, clock))
        \/ k = "end_time" /\ data.end_time.kind = "missing"
        \/ k = "max_capacity" /\ CapacityInvalid(data.max_capacity)}

\* validate() runs only when every field passed.
EventErrors(data, clock) ==
    IF EventFieldErrors(data, clock) # {} THEN EventFieldErrors(data, clock)
    ELSE IF EndNotAfterStart(data.start_time.t, data.end_time.t)
         THEN {"non_field_errors"}
         ELSE {}

EmailWellFormed(email) == email \in ValidEmails

\* AttendeeSerializer.is_valid: the keys of serializer.errors.
AttendeeErrors(body) ==
    {k \in {"name", "email"} :
        \/ k = "name" /\ body.name \in {"", Missing}
        \/ k = "email" /\ ~EmailWellFormed(body.email)}

\* AttendeeSerializer.Meta.fields
AttendeeData(a) == [id |-> a.id, name |-> a.name, email |-> a.email]

(* ------------------------------- store ------------------------------- *)

EventExists(id) == \E e \in events : e.id = id
EventById(id) == CHOOSE e \in events : e.id = id

\* event.attendees.count()
AttendeeCount(id) == Cardinality({a \in attendees : a.event = id})

\* The capacity check off by one: `>` for `>=`.
EventFullOffByOne(id) == AttendeeCount(id) > EventById(id).max_capacity

\* if event.attendees.count() >= event.max_capacity
EventFull(id) == AttendeeCount(id) >= EventById(id).max_capacity

\* The model without its unique_together: the storage accepts every row.
NoUniqueTogether(id, email) == FALSE

\* Attendee.Meta.unique_together = ('event', 'email')
ViolatesUniqueTogether(id, email) ==
    \E a \in attendees : a.event = id /\ a.email = email

\* An insert that replaces the rows of the same email.
InsertReplacing(rows, row) == {a \in rows : a.email # row.email} \cup {row}

\* serializer.save(event=event): one INSERT into the attendees table.
InsertAttendee(rows, row) == rows \cup {row}

\* Event.Meta.ordering = ('-id',)
RECURSIVE DescById(_)
DescById(S) ==
    IF S = {} THEN <<>>
    ELSE LET m == CHOOSE x \in S : \A y \in S : y.id <= x.id
         IN <<m>> \o DescById(S \ {m})

\* Attendees come back in insertion order.
RECURSIVE AscById(_)
AscById(S) ==
    IF S = {} THEN <<>>
    ELSE LET m == CHOOSE x \in S : \A y \in S : x.id <= y.id
         IN <<m>> \o AscById(S \ {m})

\* The filter with `>` for `>=`.
UpcomingStrict == {e \in events : e.start_time > now}

\* EventModelViewSet.get_queryset
Upcoming == {e \in events : e.start_time >= now}

\* PageNumberPagination: the number of pages, and one page of a result.
NumPages(n) == IF n = 0 THEN 1 ELSE (n + page_size - 1) \div page_size

PageOf(rows, page) ==
    SubSeq(rows, (page - 1) * page_size + 1,
           IF page * page_size < Len(rows) THEN page * page_size ELSE Len(rows))

(* ------------------------------- state ------------------------------- *)

Init ==
    /\ events = {}
    /\ attendees = {}
    /\ now = 0
    /\ pc = [w \in Workers |-> "idle"]
    /\ req = [w \in Workers |-> NoReq]
    /\ response = NoResponse

\* A worker takes a step only when no response is waiting to be sent.
Ready(w, at) == pc[w] = at /\ response.status = 0

\* No handler is between its check and its write.  A read is one step that
\* leaves the store alone, and a handler in flight has written nothing yet,
\* so reads served at these points see every store the others would see.
Quiescent == \A v \in Workers : pc[v] = "idle"

\* return Response(...), or the exception leaving the handler.
Respond(w, r) ==
    /\ response' = r
    /\ pc' = [pc EXCEPT ![w] = "idle"]
    /\ req' = [req EXCEPT ![w] = NoReq]

\* The response reaches the client.
SendResponse ==
    /\ response.status # 0
    /\ response' = NoResponse
    /\ UNCHANGED <<events, attendees, now, pc, req>>

(* ------------------ AttendeeModelViewset.create (register) ----------- *)

\* Event.objects.get, the capacity check and the serializer's validation.
\* The `else` of `if event:` is never taken: get() raises instead of
\* returning a falsy value.  Event rows never change once stored, so the
\* get and the count read the store in one step.
RegisterCheck(w, event_id, body) ==
    /\ Ready(w, "idle")
    /\ UNCHANGED <<events, attendees, now>>
    /\ IF ~EventExists(event_id)
       THEN Respond(w, Uncaught("register", "DoesNotExist"))
       ELSE IF EventFull(event_id)
       THEN Respond(w, WithBody(Envelope("register", HTTP_400_BAD_REQUEST, FALSE,
                                         MsgFull, {}, <<>>), body))
       ELSE IF AttendeeErrors(body) # {}
       THEN Respond(w, WithBody(Envelope("register", HTTP_400_BAD_REQUEST, FALSE,
                                         MsgIncorrect, AttendeeErrors(body), <<>>),
                                body))
       ELSE /\ pc' = [pc EXCEPT ![w] = "reg_save"]
            /\ req' = [req EXCEPT ![w] =
                         [NoReq EXCEPT !.event = EventById(event_id), !.body = body]]
            /\ UNCHANGED response

\* serializer.save(event=event): the insert, which the storage refuses
\* when (event, email) is taken.
RegisterSave(w) ==
    /\ Ready(w, "reg_save")
    /\ UNCHANGED <<events, now>>
    /\ IF ViolatesUniqueTogether(req[w].event.id, req[w].body.email)
       THEN /\ Respond(w, Envelope("register", HTTP_400_BAD_REQUEST, FALSE,
                                   MsgDuplicate, {}, <<>>))
            /\ UNCHANGED attendees
       ELSE LET row == [id |-> Cardinality(attendees) + 1,
                        event |-> req[w].event.id,
                        name |-> req[w].body.name,
                        email |-> req[w].body.email]
            IN /\ attendees' = InsertAttendee(attendees, row)
               /\ Respond(w, Envelope("register", HTTP_201_CREATED, TRUE,
                                      MsgRegistered, {}, <<AttendeeData(row)>>))

(* -------------------- AttendeeModelViewset.list ---------------------- *)

ListAttendees(w, event_id, page) ==
    /\ Ready(w, "idle")
    /\ Quiescent
    /\ UNCHANGED <<events, attendees, now>>
    /\ LET rows == AscById({a \in attendees : a.event = event_id})
       IN IF page > NumPages(Len(rows))
          THEN Respond(w, ApiException("attendees", HTTP_404_NOT_FOUND, "NotFound"))
          ELSE Respond(w, Envelope("attendees", HTTP_200_OK, TRUE,
                                   IF Len(rows) > 0 THEN MsgAttendees ELSE MsgNoAttendees,
                                   {},
                                   [i \in DOMAIN PageOf(rows, page) |->
                                       AttendeeData(PageOf(rows, page)[i])]))

(* ---------------------- EventModelViewSet.create --------------------- *)

CreatesInFlight == Cardinality({v \in Workers : pc[v] = "create_insert"})

\* The events table has room for the rows of the creates in flight and one
\* more.
CanCreate == Cardinality(events) + CreatesInFlight < MaxEvents

\* localize_input, then serializer.is_valid(raise_exception=True).
CreateValidate(w, body, timezone_str) ==
    /\ Ready(w, "idle")
    /\ CanCreate
    /\ UNCHANGED <<events, attendees, now>>
    /\ IF localize_raises(body, timezone_str) # "none"
       THEN Respond(w, Uncaught("create", localize_raises(body, timezone_str)))
       ELSE LET data == localize_input(body, timezone_str)
            IN IF EventErrors(data, now) # {}
               THEN Respond(w, Envelope("create", HTTP_400_BAD_REQUEST, FALSE,
                                        MsgCreateFailed, EventErrors(data, now), <<>>))
               ELSE /\ pc' = [pc EXCEPT ![w] = "create_insert"]
                    /\ req' = [req EXCEPT ![w] =
                         [NoReq EXCEPT
                            !.event = [id |-> 0, name |-> data.name,
                                       location |-> data.location,
                                       start_time |-> convert_to_utc(data.start_time.t, timezone_str),
                                       end_time |-> convert_to_utc(data.end_time.t, timezone_str),
                                       max_capacity |-> data.max_capacity],
                            !.tz = timezone_str,
                            !.evaluated_at = now]]
                    /\ UNCHANGED response

\* Event.objects.create(**validated_data): the storage refuses a taken
\* name, and `except Exception` turns that into a 500.
CreateInsert(w) ==
    /\ Ready(w, "create_insert")
    /\ UNCHANGED <<attendees, now>>
    /\ IF NameTaken(req[w].event.name)
       THEN /\ Respond(w, Envelope("create", HTTP_500_INTERNAL_SERVER_ERROR, FALSE,
                                   MsgCreateUnexpected, {"IntegrityError"}, <<>>))
            /\ UNCHANGED events
       ELSE LET row == [req[w].event EXCEPT !.id = Cardinality(events) + 1]
            IN /\ events' = events \cup {row}
               /\ Respond(w, WithZone(Envelope("create", HTTP_201_CREATED, TRUE,
                                               MsgCreated, {},
                                               <<modify_datetime_format(row, req[w].tz)>>),
                                      req[w].tz))

(* --------------------- EventModelViewSet.retrieve -------------------- *)

Retrieve(w, pk, timezone_str) ==
    /\ Ready(w, "idle")
    /\ Quiescent
    /\ UNCHANGED <<events, attendees, now>>
    /\ IF ~EventExists(pk)
       THEN Respond(w, WithZone(Envelope("retrieve", HTTP_404_NOT_FOUND, FALSE,
                                         MsgEventNotFound, {}, <<>>), timezone_str))
       ELSE Respond(w, WithZone(Envelope("retrieve", HTTP_200_OK, TRUE,
                                         MsgEventFetched, {},
                                         <<modify_datetime_format(EventById(pk),
                                                                  timezone_str)>>),
                                timezone_str))

(* ----------------------- EventModelViewSet.list ---------------------- *)

ListEvents(w, timezone_str, page) ==
    /\ Ready(w, "idle")
    /\ Quiescent
    /\ UNCHANGED <<events, attendees, now>>
    /\ LET rows == DescById(Upcoming)
       IN IF page > NumPages(Len(rows))
          THEN Respond(w, WithZone(ApiException("list", HTTP_404_NOT_FOUND, "NotFound"),
                                   timezone_str))
          ELSE Respond(w, WithZone(
                   Envelope("list", HTTP_200_OK, TRUE,
                            IF Len(rows) > 0 THEN MsgUpcoming ELSE MsgNoUpcoming,
                            {},
                            [i \in DOMAIN PageOf(rows, page) |->
                                modify_datetime_format(PageOf(rows, page)[i],
                                                       timezone_str)]),
                   timezone_str))

(* ---------------------- EventModelViewSet.update --------------------- *)

\* serializer.data of a serializer built with data= and not yet validated:
\* the framework's property asserts that is_valid() was called, so reading
\* it raises AssertionError.
SerializerDataReadable == FALSE

\* The rows get_object() looks the id up in: get_queryset().
UpdateTarget(pk) == {e \in Upcoming : e.id = pk}

\* Everything runs inside `try`, and `except Exception` answers 500: the
\* Http404 of get_object(), and the AssertionError of serializer.data
\* (lines 226-227), before is_valid() and perform_update() are reached.
\* Past them, modify_datetime_format is called without user_timezone.
Update(w, pk, body, timezone_str) ==
    /\ Ready(w, "idle")
    /\ UNCHANGED <<attendees, now>>
    /\ IF UpdateTarget(pk) = {}
       THEN /\ Respond(w, Envelope("update", HTTP_500_INTERNAL_SERVER_ERROR, FALSE,
                                   MsgUpdateUnexpected, {"Http404"}, <<>>))
            /\ UNCHANGED events
       ELSE IF ~SerializerDataReadable
       THEN /\ Respond(w, Envelope("update", HTTP_500_INTERNAL_SERVER_ERROR, FALSE,
                                   MsgUpdateUnexpected, {"AssertionError"}, <<>>))
            /\ UNCHANGED events
       ELSE LET data == localize_input(body, "UTC")
                old == EventById(pk)
                errs == EventFieldErrors([data EXCEPT !.name =
                                            IF data.name = old.name THEN "" ELSE data.name],
                                         now)
            IN IF data.start_time.kind = "garbage" \/ data.end_time.kind = "garbage"
                  \/ EventErrors(data, now) \ {"name"} # {}
                  \/ (data.name # old.name /\ "name" \in EventErrors(data, now))
               THEN /\ Respond(w, Envelope("update", HTTP_400_BAD_REQUEST, FALSE,
                                           MsgUpdateInvalid, {"detail"}, <<>>))
                    /\ UNCHANGED events
               ELSE /\ events' = (events \ {old}) \cup
                          {[id |-> pk, name |-> data.name, location |-> data.location,
                            start_time |-> data.start_time.t,
                            end_time |-> data.end_time.t,
                            max_capacity |-> data.max_capacity]}
                    /\ Respond(w, Envelope("update", HTTP_500_INTERNAL_SERVER_ERROR,
                                           FALSE, MsgUpdateUnexpected, {"TypeError"},
                                           <<>>))

(* ------------------------------- clock ------------------------------- *)

Tick ==
    /\ response.status = 0
    /\ now < MaxClock
    /\ now' = now + 1
    /\ UNCHANGED <<events, attendees, pc, req, response>>

\* A free worker takes up a request.
Requests ==
    \/ \E w \in Workers : Ready(w, "idle") /\
          \E id \in EventIds, body \in AttendeeBodies : RegisterCheck(w, id, body)
    \/ \E w \in Workers : Ready(w, "idle") /\
          \E id \in EventIds, page \in Pages : ListAttendees(w, id, page)
    \/ \E w \in Workers : Ready(w, "idle") /\ CanCreate /\
          \E body \in EventBodies, tz \in HeaderZones : CreateValidate(w, body, tz)
    \/ \E w \in Workers : Ready(w, "idle") /\
          \E pk \in EventIds, tz \in HeaderZones : Retrieve(w, pk, tz)
    \/ \E w \in Workers : Ready(w, "idle") /\
          \E tz \in HeaderZones, page \in Pages : ListEvents(w, tz, page)
    \/ \E w \in Workers : Ready(w, "idle") /\
          \E pk \in EventIds, body \in UpdateBodies, tz \in HeaderZones :
             Update(w, pk, body, tz)

\* A request in flight goes on, a response leaves, the clock advances.
Steps ==
    \/ \E w \in Workers : RegisterSave(w)
    \/ \E w \in Workers : CreateInsert(w)
    \/ SendResponse
    \/ Tick

Next == Requests \/ Steps

Spec == Init /\ [][Next]_vars

\* Requests served one at a time: a handler starts only when no other
\* handler is running.
SeqNext == (Quiescent /\ Requests) \/ Steps

SpecSeq == Init /\ [][SeqNext]_vars

(* ============================== claims =============================== *)

\* The only message of the API that holds the words "event is full".
ContainsEventIsFull(message) == message = MsgFull

\* The attendee rows bound to an event.
RowsOf(id) == {a \in attendees : a.event = id}

\* The same, after the step.
RowsOfNext(id) == {a \in attendees' : a.event = id}

\* Worker w starts a register request in this step.
RegisterStarts(w) ==
    /\ pc[w] = "idle"
    /\ response.status = 0
    /\ pc'[w] = "reg_save" \/ response'.op = "register"

\* Worker w ends a register request with the insert in this step.
RegisterEnds(w) == pc[w] = "reg_save" /\ pc'[w] = "idle"

\* (event, email) already has a row.
Registered(id, email) == \E a \in attendees : a.event = id /\ a.email = email

\* C1: for every event, the number of attendee rows bound to it is at most
\* its max_capacity, in every reachable state, whatever the interleaving of
\* the count check and the insert of concurrent register requests.
C1_CapacityInvariant ==
    \A e \in events : Cardinality(RowsOf(e.id)) <= e.max_capacity

\* C2: with register requests served one at a time, a registration with a
\* valid, not yet registered email against an event below capacity goes
\* through to the insert and returns 201, adding one row; a registration
\* against an event at capacity returns 400, success false, "event is full",
\* writing nothing; and the event never holds more than max_capacity rows.
C2_SequentialCapacity ==
    [][\A w \in Workers :
        /\ RegisterStarts(w) => \A id \in EventIds, body \in AttendeeBodies :
              EventExists(id) /\ RegisterCheck(w, id, body) =>
                 IF Cardinality(RowsOf(id)) >= EventById(id).max_capacity
                 THEN /\ response'.status = HTTP_400_BAD_REQUEST
                      /\ response'.success = FALSE
                      /\ ContainsEventIsFull(response'.message)
                      /\ attendees' = attendees
                 ELSE (AttendeeErrors(body) = {} /\ ~Registered(id, body.email))
                         => pc'[w] = "reg_save" /\ req'[w].body = body
                            /\ req'[w].event.id = id
        /\ (RegisterEnds(w)
            /\ ~Registered(req[w].event.id, req[w].body.email)) =>
              /\ response'.status = HTTP_201_CREATED
              /\ Cardinality(RowsOfNext(req[w].event.id)) =
                    Cardinality(RowsOf(req[w].event.id)) + 1
              /\ Cardinality(RowsOfNext(req[w].event.id)) <= req[w].event.max_capacity
    ]_vars

\* C2 witness: an event of capacity 2 holds exactly 2 rows and a further
\* registration has just been answered "event is full".
C2_Witness ==
    /\ response.op = "register"
    /\ response.status = HTTP_400_BAD_REQUEST
    /\ ContainsEventIsFull(response.message)
    /\ Cardinality(events) = 1
    /\ \E e \in events : e.max_capacity = 2 /\ Cardinality(RowsOf(e.id)) = 2

\* C3: no two attendee rows share the same (event, email).
C3_UniqueTogether ==
    \A a, b \in attendees : (a.event = b.event /\ a.email = b.email) => a = b

\* C3 witness: two register requests with the same event and email have
\* both passed the capacity check, and one of them has inserted its row.
C3_Witness ==
    \E w \in Workers :
        /\ pc[w] = "reg_save"
        /\ Registered(req[w].event.id, req[w].body.email)
        /\ response.op = "register"
        /\ response.status = HTTP_201_CREATED
        /\ response.data[1].email = req[w].body.email
        /\ Cardinality(events) = 1

\* C4: registering an email that already has a row for the event, while the
\* event is below capacity, ends with 400, success false and a message that
\* is not the capacity message, and leaves the attendee rows as they were.
C4_DuplicateRejected ==
    [][\A w \in Workers :
        /\ RegisterStarts(w) => \A id \in EventIds, body \in AttendeeBodies :
              (EventExists(id)
               /\ Registered(id, body.email)
               /\ Cardinality(RowsOf(id)) < EventById(id).max_capacity
               /\ RegisterCheck(w, id, body)) =>
                 /\ attendees' = attendees
                 /\ \/ pc'[w] = "reg_save" /\ req'[w].body = body
                       /\ req'[w].event.id = id /\ response' = response
                    \/ /\ response'.status = HTTP_400_BAD_REQUEST
                       /\ response'.success = FALSE
                       /\ ~ContainsEventIsFull(response'.message)
        /\ (RegisterEnds(w)
            /\ Registered(req[w].event.id, req[w].body.email)) =>
              /\ response'.status = HTTP_400_BAD_REQUEST
              /\ response'.success = FALSE
              /\ response'.message = MsgDuplicate
              /\ ~ContainsEventIsFull(response'.message)
              /\ attendees' = attendees
    ]_vars

\* C4 witness: the duplicate answer has just been given for an event that
\* holds one row and has room for another.
C4_Witness ==
    /\ response.op = "register"
    /\ response.message = MsgDuplicate
    /\ Cardinality(events) = 1
    /\ \E e \in events : e.max_capacity = 2 /\ Cardinality(RowsOf(e.id)) = 1

\* C5: a register request for an event id that matches no event is answered
\* with a 404 envelope, success false, and writes no attendee row.
C5_UnknownEventNotFound ==
    [][\A w \in Workers :
        RegisterStarts(w) => \A id \in EventIds, body \in AttendeeBodies :
           (~EventExists(id) /\ RegisterCheck(w, id, body)) =>
              /\ response'.status = HTTP_404_NOT_FOUND
              /\ response'.envelope
              /\ response'.success = FALSE
              /\ attendees' = attendees
    ]_vars

\* C6: every response of every handler is an envelope with one of the
\* statuses 200, 201, 400, 404, 500, and no exception leaves a handler.
C6_EveryResponseIsEnvelope ==
    response.status # 0 =>
        /\ response.envelope
        /\ response.status \in Statuses
        /\ response.raised = "none"

\* Worker w starts a create request in this step.
CreateStarts(w) ==
    /\ pc[w] = "idle"
    /\ response.status = 0
    /\ pc'[w] = "create_insert" \/ response'.op = "create"

\* C7: a create request with an unknown X-Timezone, or with a start_time or
\* end_time that is no datetime, is answered with a 400 envelope, success
\* false, and stores no event.
C7_StrictWritePath ==
    [][\A w \in Workers :
        CreateStarts(w) => \A body \in EventBodies, tz \in HeaderZones :
           ((tz \notin Zones \/ body.start_time.kind = "garbage"
                \/ body.end_time.kind = "garbage")
            /\ CreateValidate(w, body, tz)) =>
              /\ response'.status = HTTP_400_BAD_REQUEST
              /\ response'.envelope
              /\ response'.success = FALSE
              /\ events' = events
    ]_vars

\* The UTC instant of a datetime of a request body that has one: a naive
\* value is wall-clock time in the zone of the header, a value with an
\* offset keeps its own.
HasInstant(v) == v.kind \in {"naive", "aware"}
InstantOf(v, tz) == IF v.kind = "naive" THEN v.t - ZoneOffset(tz) ELSE v.t - v.off

\* The body of an update of event pk meets the invariants of create: a known
\* zone, start after now (in UTC), end after start, capacity at least 1, a
\* name no other event uses.
MeetsCreateInvariants(pk, body, tz) ==
    /\ tz \in Zones
    /\ HasInstant(body.start_time) /\ HasInstant(body.end_time)
    /\ InstantOf(body.start_time, tz) > now
    /\ InstantOf(body.end_time, tz) > InstantOf(body.start_time, tz)
    /\ body.max_capacity >= 1
    /\ body.name # "" /\ body.location # ""
    /\ \A e \in events : e.name = body.name => e.id = pk

\* The row a full replace of event pk by body stores.
Replaced(pk, body, tz) ==
    [id |-> pk, name |-> body.name, location |-> body.location,
     start_time |-> InstantOf(body.start_time, tz),
     end_time |-> InstantOf(body.end_time, tz),
     max_capacity |-> body.max_capacity]

\* Some worker answers an update request in this step.
UpdateAnswered == response.status = 0 /\ response'.op = "update"

\* C8: an update of a stored event with a body that meets the invariants of
\* create returns 200 and leaves the event with exactly the submitted
\* fields, every other event unchanged.
C8_UpdateReplaces ==
    [][UpdateAnswered =>
        \A w \in Workers, pk \in EventIds, body \in UpdateBodies, tz \in HeaderZones :
           (EventExists(pk) /\ MeetsCreateInvariants(pk, body, tz)
            /\ Update(w, pk, body, tz)) =>
              /\ response'.status = HTTP_200_OK
              /\ events' = (events \ {EventById(pk)}) \cup {Replaced(pk, body, tz)}
    ]_vars

\* C9: an update of an id that matches no stored event is answered 404 and
\* leaves the events as they were; an update of a stored event, past or
\* upcoming, is not answered 404.
C9_UpdateNotFound ==
    [][UpdateAnswered =>
        \A w \in Workers, pk \in EventIds, body \in UpdateBodies, tz \in HeaderZones :
           Update(w, pk, body, tz) =>
              IF EventExists(pk)
              THEN response'.status # HTTP_404_NOT_FOUND
              ELSE /\ response'.status = HTTP_404_NOT_FOUND
                   /\ response'.success = FALSE
                   /\ events' = events
    ]_vars

\* C10: a create request whose start_time, in UTC, is not after the clock
\* is answered with a 400 envelope and stores nothing; and every row that
\* create stores has a start_time after the clock value its request was
\* evaluated at.
C10_FutureStart ==
    [][\A w \in Workers :
        /\ CreateStarts(w) => \A body \in EventBodies, tz \in HeaderZones :
              (tz \in Zones
               /\ HasInstant(body.start_time)
               /\ InstantOf(body.start_time, tz) <= now
               /\ CreateValidate(w, body, tz)) =>
                 /\ response'.status = HTTP_400_BAD_REQUEST
                 /\ response'.envelope
                 /\ response'.success = FALSE
                 /\ events' = events
        /\ (pc[w] = "create_insert" /\ pc'[w] = "idle") =>
              \A e \in events' \ events : e.start_time > req[w].evaluated_at
    ]_vars

\* Worker w ends a create request with the insert in this step.
CreateEnds(w) == pc[w] = "create_insert" /\ pc'[w] = "idle"

\* The body has a name and a location, and both its datetimes are
\* datetimes, the first of them after the clock.
StartsInFuture(body, tz) ==
    /\ body.name # "" /\ body.location # ""
    /\ HasInstant(body.start_time) /\ HasInstant(body.end_time)
    /\ InstantOf(body.start_time, tz) > now

\* end_time, as an instant, is not after start_time.
EndsBeforeStart(body, tz) ==
    InstantOf(body.end_time, tz) <= InstantOf(body.start_time, tz)

\* A stored event has the name of the body.
NameCollides(body) == \E e \in events : e.name = body.name

\* C11: a create or an update whose end_time is not after its start_time,
\* its other fields being valid, is
\* answered with a 400 validation error whose errors are keyed by end_time,
\* and leaves the events as they were; so every stored event has
\* start_time < end_time.
C11_EndAfterStart ==
    [][/\ \A w \in Workers :
            CreateStarts(w) => \A body \in EventBodies, tz \in Zones :
               (StartsInFuture(body, tz) /\ EndsBeforeStart(body, tz)
                /\ body.max_capacity >= 1 /\ ~NameCollides(body)
                /\ CreateValidate(w, body, tz)) =>
                  /\ response'.status = HTTP_400_BAD_REQUEST
                  /\ response'.success = FALSE
                  /\ "end_time" \in response'.errors
                  /\ events' = events
       /\ UpdateAnswered =>
            \A w \in Workers, pk \in EventIds, body \in UpdateBodies, tz \in Zones :
               (EventExists(pk) /\ StartsInFuture(body, tz)
                /\ EndsBeforeStart(body, tz) /\ Update(w, pk, body, tz)) =>
                  /\ response'.status = HTTP_400_BAD_REQUEST
                  /\ "end_time" \in response'.errors
                  /\ events' = events
       /\ \A e \in events' : e.start_time < e.end_time
    ]_vars

\* C12: a create with max_capacity 0 or negative, its other fields being
\* valid, is answered with a 400 validation error and stores nothing, and
\* every stored event has max_capacity >= 1.
C12_PositiveCapacity ==
    [][/\ \A w \in Workers :
            CreateStarts(w) => \A body \in EventBodies, tz \in Zones :
               (body.max_capacity <= 0 /\ StartsInFuture(body, tz)
                /\ ~EndsBeforeStart(body, tz) /\ ~NameCollides(body)
                /\ CreateValidate(w, body, tz)) =>
                  /\ response'.status = HTTP_400_BAD_REQUEST
                  /\ response'.success = FALSE
                  /\ events' = events
       /\ \A e \in events' : e.max_capacity >= 1
    ]_vars

\* A body that repeats the name of the stored event e, with a window of
\* its own.
Renamed(e, t) ==
    [name |-> e.name, location |-> e.location, start_time |-> Naive(t),
     end_time |-> Naive(t + 1), max_capacity |-> e.max_capacity]

\* C13: event names are pairwise distinct, and a create whose name is the
\* name of a stored event, when it is validated or when it is inserted, is
\* answered with a 400 validation error keyed by name and stores nothing.
C13_UniqueName ==
    [][/\ \A e, f \in events' : e.name = f.name => e = f
       /\ \A w \in Workers :
            /\ CreateStarts(w) =>
                  \A e \in events, t \in 1..(MaxTime - 1), tz \in Zones :
                     (StartsInFuture(Renamed(e, t), tz)
                      /\ CreateValidate(w, Renamed(e, t), tz)) =>
                        /\ response'.status = HTTP_400_BAD_REQUEST
                        /\ "name" \in response'.errors
                        /\ events' = events
            /\ (CreateEnds(w) /\ \E e \in events : e.name = req[w].event.name) =>
                  /\ response'.status = HTTP_400_BAD_REQUEST
                  /\ response'.success = FALSE
                  /\ "name" \in response'.errors
                  /\ events' = events
    ]_vars

\* Some worker answers a request of this operation in this step.
Answered(op) == response.status = 0 /\ response'.op = op

\* The ids of the rows of a response.
IdsOf(data) == {data[i].id : i \in DOMAIN data}

C14_PastRetrieved ==
    /\ response.op = "retrieve"
    /\ response.status = HTTP_200_OK
    /\ \E e \in events : e.start_time < now /\ IdsOf(response.data) = {e.id}

\* The body of a create with the fields of the validated event v and the
\* naive datetimes s and e.
NaiveBody(v, s, e) ==
    [name |-> v.name, location |-> v.location, start_time |-> Naive(s),
     end_time |-> Naive(e), max_capacity |-> v.max_capacity]

RowsInUTC(data) == \A i \in DOMAIN data : data[i] \in events

\* C16: a list or retrieve request with an X-Timezone header that names no
\* zone does not fail because of the header and changes nothing: the first
\* page of the listing is answered 200 with the upcoming events, retrieve
\* is answered 200 with the event (404 when there is none), as with
\* X-Timezone UTC, and the times of the rows are in UTC.
C16_LenientRead ==
    [][/\ Answered("list") =>
            \A w \in Workers, tz \in HeaderZones \ Zones :
               ListEvents(w, tz, 1) =>
                  /\ response'.status = HTTP_200_OK
                  /\ response'.envelope /\ response'.success
                  /\ IdsOf(response'.data) =
                        {e.id : e \in {x \in events : x.start_time >= now}}
                  /\ RowsInUTC(response'.data)
                  /\ events' = events /\ attendees' = attendees
       /\ Answered("retrieve") =>
            \A w \in Workers, tz \in HeaderZones \ Zones, pk \in EventIds :
               Retrieve(w, pk, tz) =>
                  /\ response'.envelope
                  /\ response'.status =
                        IF EventExists(pk) THEN HTTP_200_OK ELSE HTTP_404_NOT_FOUND
                  /\ IdsOf(response'.data) = {pk} \cap {e.id : e \in events}
                  /\ RowsInUTC(response'.data)
                  /\ events' = events /\ attendees' = attendees
    ]_vars

\* C16 witness: a listing requested with an X-Timezone header that names
\* no zone has just been answered 200 with a stored event.
C16_Witness ==
    /\ response.op = "list"
    /\ response.status = HTTP_200_OK
    /\ response.request.tz \notin Zones
    /\ response.request.tz \in HeaderZones
    /\ Len(response.data) >= 1

\* C17: a register request that is answered with a status other than 201
\* leaves the attendee rows and the events as they were; one that is
\* answered 201 adds exactly one attendee row, bound to the event addressed,
\* and changes nothing else; and no step of any handler removes or changes
\* an attendee row, or removes an event.
C17_RegisterFrame ==
    [][/\ attendees \subseteq attendees'
       /\ \A e \in events : \E f \in events' : f.id = e.id
       /\ (Answered("register") /\ response'.status # HTTP_201_CREATED) =>
             attendees' = attendees /\ events' = events
       /\ \A w \in Workers :
            /\ (pc[w] = "idle" /\ pc'[w] = "reg_save") =>
                  attendees' = attendees /\ events' = events
            /\ (RegisterEnds(w) /\ response'.status = HTTP_201_CREATED) =>
                  /\ Cardinality(attendees' \ attendees) = 1
                  /\ \A a \in attendees' \ attendees :
                        /\ a.event = req[w].event.id
                        /\ a.email = req[w].body.email
                        /\ a.name = req[w].body.name
                        /\ \A b \in attendees : b.id # a.id
                  /\ events' = events
    ]_vars

\* C17 witness: a registration has just been answered 201 for an event that
\* held a row already, and another event holds a row with the same email.
C17_Witness ==
    /\ response.op = "register"
    /\ response.status = HTTP_201_CREATED
    /\ \E a, b, c \in attendees :
          /\ a.id = response.data[1].id
          /\ b.event = a.event /\ b.id # a.id
          /\ c.event # a.event /\ c.email = a.email

\* The event holds as many rows as its max_capacity, or more.
AtCapacity(id) == Cardinality(RowsOf(id)) >= EventById(id).max_capacity

\* The step of worker w may be its register request with this body: the
\* body is the one the request in flight holds, or the one the response
\* answers.
Submits(w, body) ==
    IF pc'[w] = "reg_save" THEN req'[w].body = body
    ELSE response'.request.email \in {body.email, NoRequest.email}

\* C18: register checks the capacity first, then the input, then the
\* uniqueness: against an event at capacity, a request with a missing or
\* malformed email and a request with an email already registered are both
\* answered with the "event is full" response; below capacity, a request
\* with a missing email is answered 400 with an error keyed by email, and a
\* request with an invalid name is answered with the validation response
\* even when its email is registered already.
C18_CheckOrder ==
    [][\A w \in Workers :
        RegisterStarts(w) => \A id \in EventIds, body \in AttendeeBodies :
           (EventExists(id) /\ Submits(w, body) /\ RegisterCheck(w, id, body)) =>
              IF AtCapacity(id)
              THEN (~EmailWellFormed(body.email) \/ Registered(id, body.email)) =>
                      /\ response'.status = HTTP_400_BAD_REQUEST
                      /\ response'.success = FALSE
                      /\ ContainsEventIsFull(response'.message)
                      /\ response'.errors = {}
              ELSE /\ body.email = Missing =>
                         /\ response'.status = HTTP_400_BAD_REQUEST
                         /\ response'.success = FALSE
                         /\ "email" \in response'.errors
                         /\ ~ContainsEventIsFull(response'.message)
                   /\ (body.name = "" /\ Registered(id, body.email)) =>
                         /\ response'.status = HTTP_400_BAD_REQUEST
                         /\ response'.message = MsgIncorrect
                         /\ "name" \in response'.errors
    ]_vars

\* C18 witness: a request without an email has just been answered "event
\* is full" by an event that holds as many rows as its max_capacity.
C18_Witness ==
    /\ response.op = "register"
    /\ ContainsEventIsFull(response.message)
    /\ response.request.email = Missing
    /\ Cardinality(events) = 1
    /\ \E e \in events : e.max_capacity >= 1 /\ Cardinality(RowsOf(e.id)) = e.max_capacity

\* C18 witness of the second case: a request with an email the event holds
\* already has just been answered "event is full".
C18_DuplicateAtCapacity ==
    /\ response.op = "register"
    /\ ContainsEventIsFull(response.message)
    /\ Cardinality(events) = 1
    /\ \E e \in events :
          /\ e.max_capacity >= 1 /\ Cardinality(RowsOf(e.id)) = e.max_capacity
          /\ Registered(e.id, response.request.email)

====
